---------------------------- MODULE Spec2Model ----------------------------
(***************************************************************************)
(* A model of the execution core of the pound emulator: the MMIO registry  *)
(* (src/src/pvm/mmio.cpp), the guest-memory accessors                      *)
(* (src/src/pvm/guest.h), the stage-1 MMU (src/src/kvm/mmu.cpp), exception *)
(* entry (src/src/kvm/kvm.cpp) and the host arena                          *)
(* (src/src/host/memory/arena.cpp).                                        *)
(*                                                                         *)
(* Each subsystem has its own specification (SpecMmio, SpecMem, SpecMmu,   *)
(* SpecExc, SpecArena) over the shared variable tuple; a subsystem's       *)
(* actions leave the other subsystems' variables unchanged.                *)
(*                                                                         *)
(* 64-bit unsigned values.  TLC's integers are 32 bits wide, so a uint64_t *)
(* v is written in two's-complement reading: v itself when v is small and  *)
(* v - 2^64 (a negative number) when v is within NearTop of 2^64.  On this *)
(* window subtraction of a small constant, comparison and the low bits of  *)
(* a value are exactly those of the 64-bit machine arithmetic.             *)
(***************************************************************************)
EXTENDS Integers, Sequences, FiniteSets, TLC

VARIABLES
    \* ---- MMIO registry (mmio_db_t) and the last call on it
    address_ranges,   \* db->address_ranges: sequence of [gpa_base, gpa_end]
    handlers,         \* db->handlers: parallel sequence of [read, write]
    mmio_op,          \* the last call: its name and arguments
    mmio_ret,         \* the value the last call returned
    invoked,          \* the callbacks the last call invoked, in order
    \* ---- guest memory (guest_memory_t) and the last accessor call on it
    host_le,          \* the host's byte order is little-endian
    endian_swap,      \* the build compiled the bswap_N calls in
    mem_base,         \* memory->base
    mem_size,         \* memory->size
    ram,              \* the host bytes behind memory->base, by offset
    mem_op,           \* the last accessor call: name, width, gpa, value
    mem_ret,          \* the guest_mem_access_result_t it returned
    out_val,          \* *out_val after a read
    touched,          \* host offsets (from memory->base) the last call accessed
    writes,           \* number of writes that stored bytes so far
    \* ---- stage-1 MMU: its inputs and the last translation
    vcpu,             \* the vCPU's sctlr_el1, tcr_el1, ttbr0_el1, ttbr1_el1
    memory,           \* the guest memory the walk reads: size and cells
    build,            \* how the translation unit was built
    mmu_op,           \* the last mmu_gva_to_gpa call: which one, and gva
    mmu_ret,          \* the value it returned
    out_gpa,          \* what it stored through out_gpa: <<>> or <<gpa>>
    desc_reads,       \* the descriptor reads it made, in order
    mmu_aborted,      \* an assert of the walk stopped the process
    mmu_half,         \* the half of the address space the call selected
    \* ---- exception entry: the last take_synchronous_exception call
    exc_op,           \* its arguments: exception_class, iss, faulting_address
    exc_aborted,      \* a PVM_ASSERT of the call stopped the process
    \* ---- host arena (arena_t), its region, and the last call on it
    arena,            \* the arena_t: capacity, size, data
    init_ret,         \* the arena_t the last arena_init returned
    region,           \* the bytes of the mapping behind arena.data, by offset
    mapped,           \* arena.data points to a mapping that is still mapped
    maps,             \* number of mappings mmap has returned
    arena_op,         \* the last call: its name and size argument
    arena_ret,        \* the pointer the last call returned
    views,            \* the views returned since the last init or reset
    guest,            \* the guest_memory_t that guest_memory_create stored
    arena_writes,     \* number of stores made through views so far
    arena_aborted     \* a PVM_ASSERT of an arena call stopped the process

mmioVars == <<address_ranges, handlers, mmio_op, mmio_ret, invoked>>
memVars  == <<host_le, endian_swap, mem_base, mem_size, ram, mem_op, mem_ret,
              out_val, touched, writes>>
mmuVars  == <<vcpu, memory, build, mmu_op, mmu_ret, out_gpa, desc_reads,
              mmu_aborted, mmu_half>>
excVars  == <<exc_op, exc_aborted>>
arenaVars == <<arena, init_ret, region, mapped, maps, arena_op, arena_ret,
               views, guest, arena_writes, arena_aborted>>
vars     == <<mmioVars, memVars, mmuVars, excVars, arenaVars>>

---------------------------------------------------------------------------
(* Bounds of the model *)

\* Guest physical addresses offered to the MMIO registry are 0..MaxGpa.
MaxGpa == 3
\* The registry is grown to at most MaxRegions entries.
MaxRegions == 2

---------------------------------------------------------------------------
(* MMIO registry: src/src/kvm/mmio.h, src/src/pvm/mmio.cpp *)

MMIO_REGIONS == 20
MMIO_SUCCESS == 0
EADDRESS_OVERLAP == -1
ENOT_HANDLED == -2
EACCESS_DENIED == -3

\* A null function pointer.
NULLPTR == 0

\* mmio_range_t values offered to mmio_db_register.  The struct is two
\* independent uint64_t fields, so gpa_end <= gpa_base can be offered too.
Ranges == [gpa_base : 0..MaxGpa, gpa_end : 0..MaxGpa]

\* mmio_handler_t values offered to mmio_db_register: both callbacks null,
\* read-only, write-only, and a device with both callbacks.  The numbers are
\* the addresses of distinct callback functions.
Handlers ==
    { [read |-> NULLPTR, write |-> NULLPTR],
      [read |-> 1,       write |-> NULLPTR],
      [read |-> NULLPTR, write |-> 2],
      [read |-> 3,       write |-> 4] }

\* The (data, len) arguments of a dispatch; data is the buffer's address,
\* non-null, and len > 0 as the assertions require.
Buffers == { [data |-> "bufA", len |-> 1], [data |-> "bufB", len |-> 4] }

\* The value a device callback returns to the dispatcher.
CallbackRets == {MMIO_SUCCESS, -1}

mmio_compare_ranges(a, b) == a.gpa_base < b.gpa_base

mmio_compare_addresses(a, b) == a.gpa_base < b.gpa_base

\* std::lower_bound(first, last, val, comp) by bisection: the number of
\* elements before the returned iterator.
RECURSIVE LowerBoundFrom(_, _, _, _)
LowerBoundFrom(s, val, first, len) ==
    IF len <= 0 THEN first
    ELSE LET half   == len \div 2
             middle == first + half
         IN  IF mmio_compare_ranges(s[middle + 1], val)
             THEN LowerBoundFrom(s, val, middle + 1, len - half - 1)
             ELSE LowerBoundFrom(s, val, first, half)

LowerBound(s, val) == LowerBoundFrom(s, val, 0, Len(s))

\* std::upper_bound(first, last, val, comp) by bisection.
RECURSIVE UpperBoundFrom(_, _, _, _)
UpperBoundFrom(s, val, first, len) ==
    IF len <= 0 THEN first
    ELSE LET half   == len \div 2
             middle == first + half
         IN  IF mmio_compare_addresses(val, s[middle + 1])
             THEN UpperBoundFrom(s, val, first, half)
             ELSE UpperBoundFrom(s, val, middle + 1, len - half - 1)

\* A mutant of UpperBound: the search stops at the first entry whose
\* gpa_base is not below the key (lower_bound used for upper_bound).
UpperBoundAsLower(s, val) == LowerBound(s, val)

UpperBound(s, val) == UpperBoundFrom(s, val, 0, Len(s))

\* vector::insert(begin() + i, x)
InsertAt(s, i, x) == SubSeq(s, 1, i) \o <<x>> \o SubSeq(s, i + 1, Len(s))

\* The two overlap tests of mmio_db_register, against the predecessor and
\* the successor of the insertion point i.
RegisterOverlap(s, range) ==
    LET i == LowerBound(s, range)
    IN  \/ (i > 0 /\ range.gpa_base < s[i].gpa_end)
        \/ (i < Len(s) /\ s[i + 1].gpa_base < range.gpa_end)

\* A mutant of RegisterOutcome: the entry is inserted before the overlap
\* tests are made.
RegisterInsertingFirst(ranges, hs, range, handler) ==
    LET i == LowerBound(ranges, range)
    IN  [ret |-> IF RegisterOverlap(ranges, range)
                 THEN EADDRESS_OVERLAP ELSE MMIO_SUCCESS,
         address_ranges |-> InsertAt(ranges, i, range),
         handlers |-> InsertAt(hs, i, handler)]

\* What mmio_db_register returns and the two vectors it leaves: the early
\* returns of the overlap tests come before the two inserts.
RegisterOutcome(ranges, hs, range, handler) ==
    LET i == LowerBound(ranges, range)
    IN  IF RegisterOverlap(ranges, range)
        THEN [ret |-> EADDRESS_OVERLAP, address_ranges |-> ranges, handlers |-> hs]
        ELSE [ret |-> MMIO_SUCCESS,
              address_ranges |-> InsertAt(ranges, i, range),
              handlers |-> InsertAt(hs, i, handler)]

mmio_db_register(range, handler) ==
    /\ Len(address_ranges) < MaxRegions
    /\ Len(address_ranges) + 1 <= MMIO_REGIONS
    /\ LET r == RegisterOutcome(address_ranges, handlers, range, handler)
       IN  /\ mmio_ret' = r.ret
           /\ address_ranges' = r.address_ranges
           /\ handlers' = r.handlers
    /\ mmio_op' = [op |-> "register", range |-> range, handler |-> handler]
    /\ invoked' = <<>>
    /\ UNCHANGED <<memVars, mmuVars, excVars, arenaVars>>

\* The lookup both dispatchers share: the index (1-based) of the entry that
\* contains gpa, or 0 when the candidate does not contain it or there is none.
DispatchCandidate(s, gpa) ==
    LET it == UpperBound(s, [gpa_base |-> gpa, gpa_end |-> 0])
    IN  IF it = 0 THEN 0
        ELSE IF s[it].gpa_base <= gpa /\ gpa < s[it].gpa_end THEN it
        ELSE 0

\* A mutant of WriteCallback: the write dispatcher tests and calls the read
\* pointer.
WriteCallbackAsRead(h) == h.read

\* The pointer mmio_db_dispatch_write tests and calls.
WriteCallback(h) == h.write

\* A mutant of ReadCallback: the read dispatcher tests and calls the write
\* pointer.
ReadCallbackAsWrite(h) == h.write

\* The pointer mmio_db_dispatch_read tests and calls.
ReadCallback(h) == h.read

mmio_db_dispatch_write(gpa, data, len) ==
    /\ LET c == DispatchCandidate(address_ranges, gpa)
       IN  IF c = 0
           THEN mmio_ret' = ENOT_HANDLED /\ invoked' = <<>>
           ELSE IF WriteCallback(handlers[c]) = NULLPTR
           THEN mmio_ret' = EACCESS_DENIED /\ invoked' = <<>>
           ELSE \E r \in CallbackRets :
                  \* the callback's return value r is discarded
                  /\ invoked' = << [fn |-> WriteCallback(handlers[c]), gpa |-> gpa,
                                    data |-> data, len |-> len] >>
                  /\ mmio_ret' = MMIO_SUCCESS
    /\ mmio_op' = [op |-> "write", gpa |-> gpa, data |-> data, len |-> len]
    /\ UNCHANGED <<address_ranges, handlers>>
    /\ UNCHANGED <<memVars, mmuVars, excVars, arenaVars>>

mmio_db_dispatch_read(gpa, data, len) ==
    /\ LET c == DispatchCandidate(address_ranges, gpa)
       IN  IF c = 0
           THEN mmio_ret' = ENOT_HANDLED /\ invoked' = <<>>
           ELSE IF ReadCallback(handlers[c]) = NULLPTR
           THEN mmio_ret' = EACCESS_DENIED /\ invoked' = <<>>
           ELSE \E r \in CallbackRets :
                  \* the callback's return value r is discarded
                  /\ invoked' = << [fn |-> ReadCallback(handlers[c]), gpa |-> gpa,
                                    data |-> data, len |-> len] >>
                  /\ mmio_ret' = MMIO_SUCCESS
    /\ mmio_op' = [op |-> "read", gpa |-> gpa, data |-> data, len |-> len]
    /\ UNCHANGED <<address_ranges, handlers>>
    /\ UNCHANGED <<memVars, mmuVars, excVars, arenaVars>>

MmioInit ==
    /\ address_ranges = <<>>
    /\ handlers = <<>>
    /\ mmio_op = [op |-> "none"]
    /\ mmio_ret = MMIO_SUCCESS
    /\ invoked = <<>>

---------------------------------------------------------------------------
(* Guest memory: src/src/pvm/guest.h *)

\* Guest RAM sizes are 0..MaxRam bytes.
MaxRam == 8
\* The uint64_t values 2^64 - NearTop .. 2^64 - 1 are written -NearTop .. -1.
NearTop == 8
\* At most MaxWrites writes store bytes in one behaviour.
MaxWrites == 1
\* Arena capacities are at most MaxCap bytes.
MaxCap == 20
\* At most MaxInits mappings are made in one behaviour.
MaxInits == 2
\* At most MaxViews views are outstanding between resets.
MaxViews == 3
\* At most MaxArenaWrites stores are made through views in one behaviour.
MaxArenaWrites == 1

GUEST_MEM_ACCESS_OK == 0
GUEST_MEM_ACCESS_FAULT_UNALIGNED == 1
GUEST_MEM_ACCESS_FAULT_BOUNDARY == 2

\* The byte arena_init fills the backing region with.
POISON_PATTERN == 170

\* *out_val when the call returned before storing to it.
UNSET == <<>>

\* sizeof(uint8_t), sizeof(uint16_t), sizeof(uint32_t), sizeof(uint64_t)
Widths == {1, 2, 4, 8}

\* Unsigned 64-bit comparison on the two's-complement reading: a negative
\* number stands for a value near 2^64, above every non-negative one.
ULt(a, b) == IF (a < 0) = (b < 0) THEN a < b ELSE b < 0

UGt(a, b) == ULt(b, a)

UGe(a, b) == ~ULt(a, b)

\* a - b in uint64_t arithmetic: a result below zero wraps to 2^64 + (a - b),
\* which the two's-complement reading writes a - b.
U64Sub(a, b) == a - b

\* x & mask for mask = 2^k - 1.
AndLowMask(x, mask) == x % (mask + 1)

\* The gpa arguments offered: 0 .. MaxRam and 2^64 - NearTop .. 2^64 - 1.
GpaInputs == (0..MaxRam) \cup ((0 - NearTop)..(0 - 1))

\* The value offered to write_N, most significant byte first: 0x01 for N = 1,
\* 0x0102 for N = 2, ..., no two bytes equal and none equal to the poison.
ValueInputs(N) == { [i \in 1..N |-> i] }

\* What a load from a host address outside the RAM block may return.
OutsideBytes == {0, POISON_PATTERN}

Reverse(v) == [i \in 1..Len(v) |-> v[Len(v) + 1 - i]]

\* bswap_16 / bswap_32 / bswap_64 on a value written most significant byte first.
bswap(v) == Reverse(v)

\* memcpy between a value and host memory: the bytes of v in address order
\* (and, read the other way, the value the bytes in address order hold).
HostOrder(v) == IF host_le THEN Reverse(v) ELSE v

\* The bounds test of the accessors: `gpa >= size` in the byte accessors,
\* `gpa > size - sizeof(uintN_t)` in the others.
BoundaryFault(N, gpa) ==
    IF N = 1 THEN UGe(gpa, mem_size)
    ELSE UGt(gpa, U64Sub(mem_size, N))

\* A mutant of AlignMask: every width is tested with the 16-bit mask.
AlignMaskOfWord(N) == 1

\* The mask of the alignment test: gpa & 1, gpa & 3, gpa & 7.
AlignMask(N) == N - 1

\* The alignment test; the byte accessors have none.
UnalignedFault(N, gpa) ==
    /\ N > 1
    /\ AndLowMask(gpa, AlignMask(N)) # 0

\* The value an accessor returns.
AccessResult(N, gpa) ==
    IF BoundaryFault(N, gpa) THEN GUEST_MEM_ACCESS_FAULT_BOUNDARY
    ELSE IF UnalignedFault(N, gpa) THEN GUEST_MEM_ACCESS_FAULT_UNALIGNED
    ELSE GUEST_MEM_ACCESS_OK

\* The host offsets, from memory->base, of hva .. hva + N - 1.
AccessOffsets(N, gpa) == { gpa + i : i \in 0..(N - 1) }

\* A mutant of WriteStores: the store is done before the alignment test.
WriteStoresBeforeAlignTest(N, gpa) == ~BoundaryFault(N, gpa)

\* A write reaches its store.
WriteStores(N, gpa) == AccessResult(N, gpa) = GUEST_MEM_ACCESS_OK

\* A mutant of StoredBytes: the write path leaves out its bswap_N.
StoredBytesWithoutSwap(val) == HostOrder(val)

\* The bytes, in address order, a write of val puts in memory.
StoredBytes(val) == HostOrder(IF endian_swap THEN bswap(val) ELSE val)

\* The value a read makes of the bytes, in address order, it loaded.
LoadedValue(bytes) ==
    LET v == HostOrder(bytes)
    IN  IF endian_swap THEN bswap(v) ELSE v

guest_mem_read(N, gpa) ==
    /\ mem_op' = [op |-> "read", width |-> N, gpa |-> gpa]
    /\ mem_ret' = AccessResult(N, gpa)
    /\ IF AccessResult(N, gpa) = GUEST_MEM_ACCESS_OK
       THEN /\ touched' = AccessOffsets(N, gpa)
            /\ \E junk \in OutsideBytes :
                  out_val' = LoadedValue(
                      [i \in 1..N |-> IF (gpa + i - 1) \in DOMAIN ram
                                      THEN ram[gpa + i - 1] ELSE junk])
       ELSE /\ touched' = {}
            /\ out_val' = UNSET
    /\ UNCHANGED <<host_le, endian_swap, mem_base, mem_size, ram, writes>>
    /\ UNCHANGED <<mmioVars, mmuVars, excVars, arenaVars>>

guest_mem_write(N, gpa, val) ==
    /\ mem_op' = [op |-> "write", width |-> N, gpa |-> gpa, val |-> val]
    /\ mem_ret' = AccessResult(N, gpa)
    /\ out_val' = UNSET
    /\ IF WriteStores(N, gpa)
       THEN /\ writes < MaxWrites
            /\ writes' = writes + 1
            /\ touched' = AccessOffsets(N, gpa)
            /\ ram' = [o \in DOMAIN ram |->
                         IF o \in AccessOffsets(N, gpa)
                         THEN StoredBytes(val)[o - gpa + 1] ELSE ram[o]]
       ELSE /\ touched' = {}
            /\ UNCHANGED <<ram, writes>>
    /\ UNCHANGED <<host_le, endian_swap, mem_base, mem_size>>
    /\ UNCHANGED <<mmioVars, mmuVars, excVars, arenaVars>>

guest_mem_readb == \E gpa \in GpaInputs : guest_mem_read(1, gpa)

guest_mem_readw == \E gpa \in GpaInputs : guest_mem_read(2, gpa)

guest_mem_readl == \E gpa \in GpaInputs : guest_mem_read(4, gpa)

guest_mem_readq == \E gpa \in GpaInputs : guest_mem_read(8, gpa)

guest_mem_writeb == \E gpa \in GpaInputs, val \in ValueInputs(1) : guest_mem_write(1, gpa, val)

guest_mem_writew == \E gpa \in GpaInputs, val \in ValueInputs(2) : guest_mem_write(2, gpa, val)

guest_mem_writel == \E gpa \in GpaInputs, val \in ValueInputs(4) : guest_mem_write(4, gpa, val)

guest_mem_writeq == \E gpa \in GpaInputs, val \in ValueInputs(8) : guest_mem_write(8, gpa, val)

\* A guest_memory_t of some size over a freshly poisoned block, on a host of
\* either byte order, built with or without the byte swaps.
MemInit ==
    /\ host_le \in BOOLEAN
    /\ endian_swap \in BOOLEAN
    /\ mem_base = "ram_block"
    /\ mem_size \in 0..MaxRam
    /\ ram = [o \in 0..(mem_size - 1) |-> POISON_PATTERN]
    /\ mem_op = [op |-> "none"]
    /\ mem_ret = GUEST_MEM_ACCESS_OK
    /\ out_val = UNSET
    /\ touched = {}
    /\ writes = 0

---------------------------------------------------------------------------
(* 64-bit words of the MMU: src/src/kvm/mmu.cpp                            *)
(*                                                                         *)
(* The MMU shifts, masks and adds full 64-bit register values, so here a   *)
(* uint64_t is the set of the positions of its 1 bits (bit 0 the least     *)
(* significant): AND is intersection, OR is union, a shift moves the       *)
(* positions and drops those that leave 0..63, and addition is a           *)
(* ripple-carry over the positions.                                        *)

BitPositions == 0..63

ZeroWord == {}

\* ~0ULL
AllOnes == BitPositions

\* The word whose value is n * 2^lo, for a natural n below 2^31.
RECURSIVE BitsOf(_, _)
BitsOf(n, b) ==
    IF n = 0 THEN {}
    ELSE (IF n % 2 = 1 THEN {b} ELSE {}) \cup BitsOf(n \div 2, b + 1)

WordOf(n, lo) == BitsOf(n, lo) \cap BitPositions

AndW(a, b) == a \cap b

OrW(a, b) == a \cup b

NotW(a) == BitPositions \ a

\* a << k and a >> k, for 0 <= k <= 63
ShlW(a, k) == { b + k : b \in a } \cap BitPositions

ShrW(a, k) == { b - k : b \in a } \cap BitPositions

\* a + b modulo 2^64: the sum without carries is a XOR b, and the carries
\* are (a AND b) << 1, added in turn until none is left.
RECURSIVE AddW(_, _)
AddW(a, b) ==
    IF b = {} THEN a
    ELSE AddW((a \ b) \cup (b \ a), ShlW(a \cap b, 1))

\* a - b modulo 2^64
SubW(a, b) == AddW(AddW(a, NotW(b)), WordOf(1, 0))

\* a > b as unsigned 64-bit values: a has a 1 bit that b lacks, above every
\* 1 bit of b that a lacks
UGtW(a, b) == \E m \in a \ b : \A x \in b \ a : x < m

\* (1ULL << k) - 1, for 0 <= k <= 63: the k low bits
LowMask(k) == 0..(k - 1)

RECURSIVE BitSum(_, _)
BitSum(w, b) ==
    IF b < 0 THEN 0
    ELSE (IF b \in w THEN 2^b ELSE 0) + BitSum(w, b - 1)

\* The conversion of a word to uint8_t: its low eight bits as a number.
ToUint8(w) == BitSum(w, 7)

---------------------------------------------------------------------------
(* Stage-1 MMU: src/src/kvm/mmu.cpp, src/core/arm64/mmu.cpp *)

GRANULE_4KB == WordOf(1, 12)

GRANULE_16KB == WordOf(1, 14)

GRANULE_64KB == WordOf(1, 16)

PAGE_TABLE_ENTRY_SHIFT == 3

\* Bytes 0xAA in all eight lanes: RAM a guest never wrote.
PoisonWord == { b \in BitPositions : (POISON_PATTERN \div (2^(b % 8))) % 2 = 1 }

\* A shift of a 64-bit value by a count the C++ standard leaves undefined
\* (count = 64): a shifter that takes the count modulo 64 (x86-64, AArch64)
\* returns the value, one that shifts every bit out (PowerPC, 32-bit
\* targets) returns 0.
ShlCount(a, k, bld) ==
    IF k <= 63 THEN ShlW(a, k)
    ELSE IF bld.shift_count_wraps THEN ShlW(a, k % 64) ELSE ZeroWord

\* __builtin_ctzll / _BitScanForward64; undefined for 0, where a build
\* returns bld.ctz_of_zero.
COUNT_TRAILING_ZEROS(x, bld) ==
    IF x = ZeroWord THEN bld.ctz_of_zero
    ELSE CHOOSE b \in x : \A y \in x : b <= y

\* The outcome of a call: it returned `ret` having stored `out` (a sequence
\* of no or one word) through out_gpa, or an assert stopped the process.
\* `reads` lists the guest_mem_readq calls it made, in order.
Returned(ret, out, reads) ==
    [returned |-> TRUE, ret |-> ret, out |-> out, reads |-> reads]

Aborted(reads) ==
    [returned |-> FALSE, ret |-> 0, out |-> <<>>, reads |-> reads]

\* guest_mem_readq on the MMU's guest memory.  mem.qwords gives, for the
\* 8-byte cells a guest wrote, the value guest_mem_readq returns there.
ReadqResult(mem, gpa) ==
    IF UGtW(gpa, SubW(mem.size, WordOf(8, 0))) THEN GUEST_MEM_ACCESS_FAULT_BOUNDARY
    ELSE IF AndW(gpa, WordOf(7, 0)) # ZeroWord THEN GUEST_MEM_ACCESS_FAULT_UNALIGNED
    ELSE GUEST_MEM_ACCESS_OK

\* `descriptor` after  descriptor = 0; guest_mem_readq(memory, gpa, &descriptor);
\* The result of the read is not looked at, so a faulting read leaves 0.  A
\* read that passes the bounds test of a RAM smaller than 8 bytes loads host
\* bytes that are not the guest's (`host`).
DescriptorAt(mem, gpa, host) ==
    IF ReadqResult(mem, gpa) # GUEST_MEM_ACCESS_OK THEN ZeroWord
    ELSE IF UGtW(WordOf(8, 0), mem.size) THEN host
    ELSE IF gpa \in DOMAIN mem.qwords THEN mem.qwords[gpa]
    ELSE PoisonWord

\* The walk loop, from `level` on, with the current table_address.
RECURSIVE Walk(_, _, _, _)
Walk(c, level, table_address, reads) ==
    IF level > c.page_table_levels THEN Returned(-1, <<>>, reads)
    ELSE
    LET level_index == AndW(ShrW(c.gva, c.shift[level]), c.page_table_index_mask)
        \* level_index * page_table_entry_size, the entry size being 8
        level_entry_address == AddW(table_address, ShlW(level_index, 3))
        descriptor == DescriptorAt(c.mem, level_entry_address, c.host)
        offset_mask == LowMask(c.offset_bits)
        page_offset == AndW(c.gva, offset_mask)
        page_address_mask == NotW(offset_mask)
        low2 == AndW(descriptor, WordOf(3, 0))
        reads2 == Append(reads, [level |-> level, gpa |-> level_entry_address,
                                 result |-> ReadqResult(c.mem, level_entry_address),
                                 descriptor |-> descriptor])
    IN  IF AndW(descriptor, WordOf(1, 0)) = ZeroWord
        THEN Returned(-1, <<>>, reads2)
        ELSE IF level = c.page_table_levels /\ low2 = WordOf(3, 0)
        THEN Returned(0, <<OrW(AndW(descriptor, page_address_mask), page_offset)>>, reads2)
        ELSE IF low2 = WordOf(3, 0)
        THEN Walk(c, level + 1, AndW(descriptor, NotW(LowMask(c.offset_bits))), reads2)
        ELSE IF c.bld.ndebug
        THEN Walk(c, level + 1, table_address, reads2)
        ELSE Aborted(reads2)

SCTLR_EL1_C_BIT == WordOf(1, 2)

SCTLR_EL1_M_BIT == WordOf(1, 0)

\* The level the walk starts at: the switch on granule_size.
StartingLevel(granule_size, virtual_address_size, l0_shift, l1_shift) ==
    IF granule_size = GRANULE_4KB
    THEN IF virtual_address_size > l0_shift THEN 0
         ELSE IF virtual_address_size > l1_shift THEN 1
         ELSE 2
    ELSE IF virtual_address_size > l1_shift THEN 1 ELSE 2

\* The test that classifies a gva as upper (kernel) half:  (gva << 63) & 1
UpperHalf(gva) == AndW(ShlW(gva, 63), WordOf(1, 0)) # ZeroWord

\* Which branch of that test a call takes, hence which of is_ttbr0 and
\* is_ttbr1 it sets and which TxSZ, TG field and TTBR it goes on to use;
\* "none" when the MMU is off and the test is not reached.
SelectedHalf(cpu, gva) ==
    IF AndW(cpu.sctlr_el1, SCTLR_EL1_M_BIT) = ZeroWord THEN "none"
    ELSE IF UpperHalf(gva) THEN "ttbr1"
    ELSE "ttbr0"

\* mmu_gva_to_gpa(vcpu, memory, gva, out_gpa) of pound::kvm::memory
Translate(cpu, mem, gva, bld, host) ==
    IF AndW(cpu.sctlr_el1, SCTLR_EL1_M_BIT) = ZeroWord
    THEN Returned(0, <<gva>>, <<>>)
    ELSE
    LET TxSZ_MASK == LowMask(6)
        T0SZ == ToUint8(AndW(cpu.tcr_el1, TxSZ_MASK))
        T1SZ == ToUint8(AndW(ShrW(cpu.tcr_el1, 16), TxSZ_MASK))
        upper_half == UpperHalf(gva)
        virtual_address_size == IF upper_half THEN 64 - T1SZ ELSE 64 - T0SZ
        top_bits_mask == ShlCount(AllOnes, virtual_address_size, bld)
        tag_fault ==
            IF upper_half
            THEN AndW(gva, top_bits_mask) # AndW(cpu.ttbr1_el1, top_bits_mask)
            ELSE AndW(gva, top_bits_mask) # ZeroWord
        is_ttbr0 == ~upper_half
        TG0 == ToUint8(AndW(ShrW(cpu.tcr_el1, 14), WordOf(3, 0)))
        TG1 == ToUint8(AndW(ShrW(cpu.tcr_el1, 30), WordOf(3, 0)))
        tg_reserved == IF is_ttbr0 THEN TG0 = 3 ELSE TG1 = 0
        granule_size ==
            IF is_ttbr0
            THEN CASE TG0 = 0 -> GRANULE_4KB
                   [] TG0 = 1 -> GRANULE_64KB
                   [] TG0 = 2 -> GRANULE_16KB
                   [] OTHER   -> ZeroWord
            ELSE CASE TG1 = 1 -> GRANULE_16KB
                   [] TG1 = 2 -> GRANULE_4KB
                   [] TG1 = 3 -> GRANULE_64KB
                   [] OTHER   -> ZeroWord
        offset_bits == COUNT_TRAILING_ZEROS(granule_size, bld)
        page_table_index_bits == (offset_bits - PAGE_TABLE_ENTRY_SHIFT) % 256
        l3_shift == offset_bits
        l2_shift == (l3_shift + page_table_index_bits) % 256
        l1_shift == (l2_shift + page_table_index_bits) % 256
        l0_shift == (l1_shift + page_table_index_bits) % 256
        starting_level ==
            StartingLevel(granule_size, virtual_address_size, l0_shift, l1_shift)
        table_address == IF is_ttbr0 THEN cpu.ttbr0_el1 ELSE cpu.ttbr1_el1
        c == [gva |-> gva, mem |-> mem, host |-> host, bld |-> bld,
              offset_bits |-> offset_bits,
              page_table_index_mask |-> LowMask(page_table_index_bits),
              shift |-> [l \in 0..3 |-> CASE l = 0 -> l0_shift
                                          [] l = 1 -> l1_shift
                                          [] l = 2 -> l2_shift
                                          [] OTHER -> l3_shift],
              page_table_levels |-> 3]
    IN  IF tag_fault THEN Returned(-1, <<>>, <<>>)
        ELSE IF tg_reserved /\ ~bld.ndebug THEN Aborted(<<>>)
        ELSE IF granule_size \notin {GRANULE_4KB, GRANULE_16KB, GRANULE_64KB}
        THEN Returned(-1, <<>>, <<>>)
        ELSE Walk(c, starting_level, table_address, <<>>)

\* mmu_gva_to_gpa(vcpu, gva, out_gpa) of pound::arm64::memory
TranslateStub(cpu, gva) ==
    IF AndW(cpu.sctlr_el1, SCTLR_EL1_M_BIT) = ZeroWord
    THEN Returned(0, <<gva>>, <<>>)
    ELSE Returned(-1, <<>>, <<>>)

\* ---- inputs of the MMU model

\* TCR_EL1 with the four fields the MMU decodes.
MkTcr(t0sz, tg0, t1sz, tg1) ==
    WordOf(t0sz, 0) \cup WordOf(tg0, 14) \cup WordOf(t1sz, 16) \cup WordOf(tg1, 30)

\* MMU off with no other bit, off with the C and I bits set, and on.
SctlrInputs ==
    { ZeroWord,
      WordOf(1, 2) \cup WordOf(1, 12),
      WordOf(1, 0),
      WordOf(1, 0) \cup WordOf(1, 2) \cup WordOf(1, 12) }

TcrInputs ==
    { MkTcr(16, 0, 16, 2),     \* 4KiB, 48-bit VA
      MkTcr(25, 0, 25, 2),     \* 4KiB, 39-bit VA
      MkTcr(34, 0, 16, 2),     \* 4KiB, 30-bit VA
      MkTcr(43, 0, 16, 2),     \* 4KiB, 21-bit VA
      MkTcr(16, 1, 16, 3),     \* 64KiB
      MkTcr(16, 2, 16, 1),     \* 16KiB
      MkTcr(16, 3, 16, 0),     \* both TG fields reserved
      MkTcr(0, 0, 0, 2),       \* TxSZ = 0: a 64-bit VA
      MkTcr(0, 0, 16, 2),      \* a 64-bit lower half, a 48-bit upper half
      MkTcr(16, 0, 0, 2) }     \* a 48-bit lower half, a 64-bit upper half

\* A table at 0x1000, and the same register with a low bit set.
Ttbr0Inputs == { WordOf(1, 12), WordOf(1, 12) \cup WordOf(1, 2) }

Ttbr1Inputs == { WordOf(5, 12) }

GP_REGISTERS == 32

\* A pvm_vcpu_t with every register 0.
VcpuReset ==
    [r |-> [i \in 0..(GP_REGISTERS - 1) |-> ZeroWord],
     pc |-> ZeroWord, cntfreq_el0 |-> ZeroWord, cntpct_el0 |-> ZeroWord,
     cntvct_el0 |-> ZeroWord, cntv_cval_el0 |-> ZeroWord,
     pmccntr_el0 |-> ZeroWord, tpidr_el0 |-> ZeroWord, tpidrro_el0 |-> ZeroWord,
     elr_el1 |-> ZeroWord, esr_el1 |-> ZeroWord, far_el1 |-> ZeroWord,
     sctlr_el1 |-> ZeroWord, spsr_el1 |-> ZeroWord, tcr_el1 |-> ZeroWord,
     ttbr0_el1 |-> ZeroWord, ttbr1_el1 |-> ZeroWord, vbar_el1 |-> ZeroWord,
     ctr_el0 |-> ZeroWord, cntv_ctl_el0 |-> ZeroWord, dczid_el0 |-> ZeroWord,
     pmcr_el0 |-> ZeroWord, pstate |-> ZeroWord]

\* The vCPUs of the MMU model: the four registers the translation reads
\* vary, the others are 0.
VcpuInputs ==
    { [VcpuReset EXCEPT !.sctlr_el1 = s, !.tcr_el1 = t,
                        !.ttbr0_el1 = b0, !.ttbr1_el1 = b1] :
        s \in SctlrInputs, t \in TcrInputs, b0 \in Ttbr0Inputs, b1 \in Ttbr1Inputs }

TableDesc(n) == WordOf(n, 12) \cup WordOf(3, 0)

\* A block descriptor (low bits 01) for the 4KiB frame n.
BlockDesc(n) == WordOf(n, 12) \cup WordOf(1, 0)

\* The page descriptor of the page at 0x8000_0000, with AF and AP bits set.
PageDesc == WordOf(1, 31) \cup WordOf(1, 10) \cup WordOf(1, 6) \cup WordOf(3, 0)

\* Cells of a 4KiB-granule table tree rooted at 0x1000 that maps the page of
\* gva 0x0040_0000 whichever level the walk starts at.
ChainCells ==
    (WordOf(1, 12)                 :> TableDesc(2)) @@   \* 0x1000: table[0]
    (WordOf(1, 12) \cup WordOf(2, 3) :> TableDesc(4)) @@ \* 0x1010: table[2]
    (WordOf(2, 12)                 :> TableDesc(3)) @@   \* 0x2000
    (WordOf(2, 12) \cup WordOf(2, 3) :> TableDesc(4)) @@ \* 0x2010
    (WordOf(3, 12) \cup WordOf(2, 3) :> TableDesc(4)) @@ \* 0x3010
    (WordOf(4, 12)                 :> PageDesc) @@       \* 0x4000
    \* and, for the 16KiB and 64KiB granules, a table at 0 that is its own
    \* next level and holds the page at the level-3 index of that gva
    (ZeroWord                      :> TableDesc(0)) @@   \* 0x0000
    (WordOf(256, 3)                :> PageDesc) @@       \* 0x0800: 16KiB
    (WordOf(64, 3)                 :> PageDesc) @@       \* 0x0200: 64KiB
    \* and a 4KiB-granule tree rooted at 0x5000, where TTBR1_EL1 points,
    \* that maps the page of that gva to 0x9000_0000
    (WordOf(5, 12)                 :> TableDesc(6)) @@   \* 0x5000
    (WordOf(6, 12)                 :> TableDesc(7)) @@   \* 0x6000
    (WordOf(7, 12) \cup WordOf(2, 3) :> TableDesc(8)) @@ \* 0x7010
    (WordOf(8, 12)                 :> WordOf(9, 28) \cup WordOf(3, 0)) \* 0x8000

NoCells == [a \in {} |-> ZeroWord]

MemoryInputs ==
    { [size |-> WordOf(1, 16), qwords |-> ChainCells],
      \* the same tree with a block descriptor in the table at 0x2000
      [size |-> WordOf(1, 16),
       qwords |-> (WordOf(2, 12) :> BlockDesc(3)) @@ ChainCells],
      \* a table whose entry 0 points back to the table
      [size |-> WordOf(1, 16), qwords |-> (WordOf(1, 12) :> TableDesc(1))],
      \* the tree in a RAM that ends before the table at 0x2000
      [size |-> WordOf(3, 11), qwords |-> (WordOf(1, 12) :> TableDesc(2))],
      \* RAM nobody wrote, and a RAM smaller than a descriptor
      [size |-> WordOf(1, 16), qwords |-> NoCells],
      [size |-> WordOf(4, 0), qwords |-> NoCells] }

\* Assertions compiled in or out (NDEBUG), and what the build's machine does
\* with a shift by 64 and a count of trailing zeros of 0.
BuildInputs ==
    { [ndebug |-> FALSE, shift_count_wraps |-> TRUE,  ctz_of_zero |-> 64],
      [ndebug |-> FALSE, shift_count_wraps |-> FALSE, ctz_of_zero |-> 64],
      [ndebug |-> TRUE,  shift_count_wraps |-> TRUE,  ctz_of_zero |-> 64],
      [ndebug |-> TRUE,  shift_count_wraps |-> TRUE,  ctz_of_zero |-> 0],
      [ndebug |-> TRUE,  shift_count_wraps |-> FALSE, ctz_of_zero |-> 64],
      [ndebug |-> TRUE,  shift_count_wraps |-> FALSE, ctz_of_zero |-> 0] }

GvaInputs ==
    { ZeroWord,
      WordOf(1, 22),                                  \* 0x0040_0000
      WordOf(1, 22) \cup WordOf(2748, 0),             \* 0x0040_0ABC
      WordOf(1, 48),                                  \* 0x0001_0000_0000_0000
      (48..63) \cup WordOf(1, 22) }                   \* 0xFFFF_0000_0040_0000

\* Host bytes next to a RAM block, as a descriptor read can load them: only
\* a RAM smaller than a descriptor lets a read through to them.
OutsideQwords(mem) ==
    IF UGtW(WordOf(8, 0), mem.size) THEN { ZeroWord, PageDesc } ELSE { ZeroWord }

\* ---- the two translation entry points

mmu_gva_to_gpa(gva) ==
    /\ ~mmu_aborted
    /\ \E host \in OutsideQwords(memory) :
         LET r == Translate(vcpu, memory, gva, build, host)
         IN  /\ mmu_op' = [fn |-> "kvm::mmu_gva_to_gpa", gva |-> gva]
             /\ mmu_aborted' = ~r.returned
             /\ mmu_ret' = IF r.returned THEN r.ret ELSE mmu_ret
             /\ out_gpa' = r.out
             /\ desc_reads' = r.reads
             /\ mmu_half' = SelectedHalf(vcpu, gva)
    /\ UNCHANGED <<vcpu, memory, build>>
    /\ UNCHANGED <<mmioVars, memVars, excVars, arenaVars>>

arm64_mmu_gva_to_gpa(gva) ==
    /\ ~mmu_aborted
    /\ LET r == TranslateStub(vcpu, gva)
       IN  /\ mmu_op' = [fn |-> "arm64::mmu_gva_to_gpa", gva |-> gva]
           /\ mmu_aborted' = FALSE
           /\ mmu_ret' = r.ret
           /\ out_gpa' = r.out
           /\ desc_reads' = r.reads
           /\ mmu_half' = "none"
    /\ UNCHANGED <<vcpu, memory, build>>
    /\ UNCHANGED <<mmioVars, memVars, excVars, arenaVars>>

\* No call made yet.
MmuNoCall ==
    /\ mmu_op = [fn |-> "none", gva |-> ZeroWord]
    /\ mmu_ret = 0
    /\ out_gpa = <<>>
    /\ desc_reads = <<>>
    /\ mmu_aborted = FALSE
    /\ mmu_half = "none"

\* Any of the vCPU register states, guest memories and builds.
MmuInit ==
    /\ vcpu \in VcpuInputs
    /\ memory \in MemoryInputs
    /\ build \in BuildInputs
    /\ MmuNoCall

---------------------------------------------------------------------------
(* Exception entry: take_synchronous_exception, src/src/kvm/kvm.cpp *)

EC_DATA_ABORT == 37

EC_DATA_ABORT_LOWER_EL == 36

PSTATE_EL1H == 5

\* ~x on a uint32_t
Not32(a) == (0..31) \ a

\* The conversion of a uint32_t to uint64_t.
ZeroExtend32(w) == w \cap (0..31)

EcAssertWithHexMask(exception_class) ==
    AndW(WordOf(exception_class, 0), WordOf(17, 24)) = ZeroWord

\* PVM_ASSERT(0 == (exception_class & 11000000)): the mask is the decimal
\* literal, and exception_class is a uint8_t promoted to int.
EcAssertHolds(exception_class) ==
    AndW(WordOf(exception_class, 0), WordOf(11000000, 0)) = ZeroWord

\* PVM_ASSERT(0 == (iss & 0xFE000000))
IssAssertHolds(iss) == AndW(iss, WordOf(254, 24)) = ZeroWord

ESR_ISS_ONLY(exception_class, iss) == ZeroExtend32(iss)

\* esr_el1 = ((uint64_t)exception_class << 26) | esr_il_bit | iss
ESR(exception_class, iss) ==
    LET esr_il_bit == WordOf(1, 25)
    IN  OrW(OrW(ShlW(WordOf(exception_class, 0), 26), esr_il_bit), ZeroExtend32(iss))

FarAlways(exception_class) == TRUE

\* (exception_class == EC_DATA_ABORT) || (exception_class == EC_DATA_ABORT_LOWER_EL)
WritesFar(exception_class) ==
    exception_class = EC_DATA_ABORT \/ exception_class = EC_DATA_ABORT_LOWER_EL

PstateKeepingNZCV(pstate) ==
    OrW(AndW(OrW(pstate, WordOf(7, 6)), Not32(WordOf(15, 0))), WordOf(PSTATE_EL1H, 0))

\* pstate after lines 48-61: NZCV cleared, FIQ, IRQ and SError masked,
\* M[3:0] = EL1h.
EntryPstate(pstate) ==
    LET PSTATE_IRQ_BIT == WordOf(1, 7)
        PSTATE_FIQ_BIT == WordOf(1, 6)
        PSTATE_SERROR_BIT == WordOf(1, 8)
        PSTATE_EL_MASK == WordOf(15, 0)
        cleared == AndW(pstate, Not32(WordOf(15, 28)))
        masked == OrW(cleared, OrW(OrW(PSTATE_IRQ_BIT, PSTATE_FIQ_BIT), PSTATE_SERROR_BIT))
        no_el == AndW(masked, Not32(PSTATE_EL_MASK))
    IN  OrW(no_el, WordOf(PSTATE_EL1H, 0))

EntryStateMovingPc(cpu, exception_class, iss, faulting_address) ==
    [cpu EXCEPT !.elr_el1 = cpu.pc, !.pc = cpu.vbar_el1]

\* The vCPU after the body of the call, lines 32-61.
EntryState(cpu, exception_class, iss, faulting_address) ==
    [cpu EXCEPT !.elr_el1 = cpu.pc,
                !.spsr_el1 = ZeroExtend32(cpu.pstate),
                !.esr_el1 = ESR(exception_class, iss),
                !.far_el1 = IF WritesFar(exception_class)
                            THEN faulting_address ELSE @,
                !.pstate = EntryPstate(cpu.pstate)]

\* take_synchronous_exception(vcpu, exception_class, iss, faulting_address)
\* on the machine's vCPU (vcpu is not null).
take_synchronous_exception(exception_class, iss, faulting_address) ==
    /\ ~exc_aborted
    /\ exc_op' = [fn |-> "take_synchronous_exception", ec |-> exception_class,
                  iss |-> iss, faulting_address |-> faulting_address]
    /\ IF EcAssertHolds(exception_class) /\ IssAssertHolds(iss)
       THEN /\ vcpu' = EntryState(vcpu, exception_class, iss, faulting_address)
            /\ exc_aborted' = FALSE
       ELSE /\ vcpu' = vcpu
            /\ exc_aborted' = TRUE
    /\ UNCHANGED <<memory, build, mmu_op, mmu_ret, out_gpa, desc_reads,
                   mmu_aborted, mmu_half>>
    /\ UNCHANGED <<mmioVars, memVars, arenaVars>>

\* ---- inputs of the exception model

\* uint8_t values: in and out of the 6-bit range, the two data aborts, bit 6
\* alone, bit 7 alone, and all bits.
ExceptionClasses ==
    {0, 21, EC_DATA_ABORT_LOWER_EL, EC_DATA_ABORT, 63, 64, 128, 165, 255}

\* uint32_t values: 0, 2^25 - 1, 2^25, and bits 31 and 0.
IssInputs == { ZeroWord, 0..24, WordOf(1, 25), WordOf(1, 31) \cup WordOf(1, 0) }

FaultingAddresses == { WordOf(1, 40) \cup WordOf(1, 3), AllOnes }

PcInputs == { WordOf(1, 42) \cup WordOf(1, 2), WordOf(1, 12) }

\* uint32_t values: all 0, all 1, EL0 with N and C set and D masked, and
\* EL1t with bits 5, 4 and 21 set.
PstateInputs ==
    { ZeroWord, 0..31,
      WordOf(1, 31) \cup WordOf(1, 29) \cup WordOf(1, 9),
      WordOf(1, 21) \cup WordOf(3, 4) \cup WordOf(4, 0) }

FarInputs == { ZeroWord, WordOf(1, 7) }

\* A vCPU whose registers all differ from 0 and from one another where the
\* call could confuse them.
VcpuRunning ==
    [r |-> [i \in 0..(GP_REGISTERS - 1) |-> WordOf(i + 1, 0)],
     pc |-> ZeroWord, cntfreq_el0 |-> WordOf(1, 20), cntpct_el0 |-> WordOf(2, 20),
     cntvct_el0 |-> WordOf(3, 20), cntv_cval_el0 |-> WordOf(4, 20),
     pmccntr_el0 |-> WordOf(5, 20), tpidr_el0 |-> WordOf(6, 20),
     tpidrro_el0 |-> WordOf(7, 20),
     elr_el1 |-> WordOf(8, 20), esr_el1 |-> AllOnes, far_el1 |-> ZeroWord,
     sctlr_el1 |-> WordOf(1, 0), spsr_el1 |-> WordOf(9, 40),
     tcr_el1 |-> MkTcr(16, 0, 16, 2),
     ttbr0_el1 |-> WordOf(1, 12), ttbr1_el1 |-> WordOf(5, 12),
     vbar_el1 |-> WordOf(1, 11),
     ctr_el0 |-> WordOf(10, 20), cntv_ctl_el0 |-> WordOf(1, 0),
     dczid_el0 |-> WordOf(4, 0), pmcr_el0 |-> WordOf(1, 6), pstate |-> ZeroWord]

ExcVcpuInputs ==
    { [VcpuRunning EXCEPT !.pc = p, !.pstate = ps, !.far_el1 = f] :
        p \in PcInputs, ps \in PstateInputs, f \in FarInputs }

\* No exception taken yet.
ExcIdle ==
    /\ exc_op = [fn |-> "none", ec |-> 0, iss |-> ZeroWord,
                 faulting_address |-> ZeroWord]
    /\ exc_aborted = FALSE

ExcInit ==
    /\ vcpu \in ExcVcpuInputs
    /\ ExcIdle

---------------------------------------------------------------------------
(* Host arena: src/src/host/memory/arena.cpp, src/core/memory/arena.h, and *)
(* guest_memory_create of src/src/kvm/guest.cpp.                           *)
(*                                                                         *)
(* One arena_t object and the region its data pointer names.  A pointer is *)
(* the mapping it points into and an offset from the mapping's first byte; *)
(* size_t values are written in the two's-complement reading, so n < 0     *)
(* stands for the size 2^64 + n.  The model follows the mmap branch of the *)
(* source (WIN32 not defined).                                             *)

\* sizeof(guest_memory_t): a pointer and a uint64_t.
SIZEOF_GUEST_MEMORY_T == 16

\* A pointer `off` bytes into a mapping; mappings are numbered from 1 in the
\* order mmap returned them.
Ptr(mapping, off) == [region |-> mapping, off |-> off]

\* nullptr
NULL_DATA == Ptr(0, 0)

\* static_cast<uint8_t*>(p) + k
PtrAdd(p, k) == IF p = NULL_DATA THEN NULL_DATA ELSE [p EXCEPT !.off = @ + k]

\* A byte of the region holding the value b, and byte k of the object
\* representation of the guest_memory_t stored in the region.
RawByte(b) == [object |-> "none", byte |-> b]

DescriptorByte(k) == [object |-> "guest_memory_t", byte |-> k]

\* No mapping behind the arena.
NoRegion == [o \in {} |-> RawByte(0)]

\* No guest_memory_t created from the arena.
NoGuest == [at |-> NULL_DATA, base |-> NULL_DATA, size |-> 0]

\* a <= b on size_t
ULe(a, b) == ~ULt(b, a)

\* mmap(nullptr, capacity, PROT_READ | PROT_WRITE, MAP_PRIVATE |
\* MAP_ANONYMOUS, -1, 0) returns a mapping: never for a length of 0 or one
\* near 2^64, and else when the system has the memory (ok).
MmapSucceeds(capacity, ok) == capacity > 0 /\ ok

\* The capacity zero-filled bytes of a new anonymous mapping.
FreshMapping(capacity) == [o \in 0..(capacity - 1) |-> RawByte(0)]

MemsetNothing(reg, c, n) == reg

\* std::memset(data, c, n) on the arena's region.
Memset(reg, c, n) == [o \in DOMAIN reg |-> IF o < n THEN RawByte(c) ELSE reg[o]]

\* arena_init(capacity): the arena_t it returns and the region behind it;
\* id is the number of the mapping mmap returns.
ArenaInitResult(capacity, ok, id) ==
    IF MmapSucceeds(capacity, ok)
    THEN [arena |-> [capacity |-> capacity, size |-> 0, data |-> Ptr(id, 0)],
          region |-> Memset(FreshMapping(capacity), POISON_PATTERN, capacity),
          mapped |-> TRUE]
    ELSE [arena |-> [capacity |-> 0, size |-> 0, data |-> NULL_DATA],
          region |-> NoRegion,
          mapped |-> FALSE]

\* arena = arena_init(capacity).  A region that an earlier arena_init mapped
\* and no arena_free released stays mapped but is no longer the arena's.
arena_init(capacity, ok) ==
    /\ ~arena_aborted
    /\ maps < MaxInits
    /\ LET r == ArenaInitResult(capacity, ok, maps + 1)
       IN  /\ arena' = r.arena
           /\ init_ret' = r.arena
           /\ region' = r.region
           /\ mapped' = r.mapped
           /\ maps' = IF r.mapped THEN maps + 1 ELSE maps
           /\ arena_ret' = r.arena.data
    /\ arena_op' = [fn |-> "arena_init", n |-> capacity]
    /\ views' = <<>>
    /\ guest' = NoGuest
    /\ UNCHANGED <<arena_aborted, arena_writes>>
    /\ UNCHANGED <<mmioVars, memVars, mmuVars, excVars>>

AllocateFitsAlways(a, size) == TRUE

\* The expression of PVM_ASSERT(arena->size + size <= arena->capacity): the
\* sum is taken in size_t.
AllocateFits(a, size) == ULe(a.size + size, a.capacity)

\* The view a call returned: its first byte and its length.
View(data, size) == [data |-> data, size |-> size]

\* The body of arena_allocate once its assertions hold: the arena after the
\* call and the pointer returned.
Allocated(a, size) ==
    [arena |-> [a EXCEPT !.size = @ + size],
     data |-> PtrAdd(a.data, a.size)]

\* arena_allocate(&arena, size)
arena_allocate(size) ==
    /\ ~arena_aborted
    /\ Len(views) < MaxViews
    /\ arena_op' = [fn |-> "arena_allocate", n |-> size]
    /\ IF AllocateFits(arena, size)
       THEN /\ arena' = Allocated(arena, size).arena
            /\ arena_ret' = Allocated(arena, size).data
            /\ views' = Append(views, View(Allocated(arena, size).data, size))
            /\ UNCHANGED arena_aborted
       ELSE /\ arena_aborted' = TRUE
            /\ UNCHANGED <<arena, arena_ret, views>>
    /\ UNCHANGED <<init_ret, region, mapped, maps, guest, arena_writes>>
    /\ UNCHANGED <<mmioVars, memVars, mmuVars, excVars>>

\* arena_reset(&arena).  After arena_free the capacity is 0 and memset is
\* asked to fill no bytes.
arena_reset ==
    /\ ~arena_aborted
    /\ arena_op' = [fn |-> "arena_reset", n |-> 0]
    /\ IF arena.data # NULL_DATA
       THEN /\ arena' = [arena EXCEPT !.size = 0]
            /\ region' = Memset(region, POISON_PATTERN, arena.capacity)
            /\ views' = <<>>
            /\ guest' = NoGuest
            /\ UNCHANGED arena_aborted
       ELSE /\ arena_aborted' = TRUE
            /\ UNCHANGED <<arena, region, views, guest>>
    /\ UNCHANGED <<init_ret, mapped, maps, arena_ret, arena_writes>>
    /\ UNCHANGED <<mmioVars, memVars, mmuVars, excVars>>

\* arena_free(&arena): the assertions on data and capacity (the page size is
\* positive and an mmap result is page-aligned), munmap of the whole
\* mapping, then capacity = size = 0.  data keeps its value.
arena_free ==
    /\ ~arena_aborted
    /\ arena_op' = [fn |-> "arena_free", n |-> 0]
    /\ IF arena.data # NULL_DATA /\ arena.capacity > 0
       THEN /\ arena' = [arena EXCEPT !.capacity = 0, !.size = 0]
            /\ region' = NoRegion
            /\ mapped' = FALSE
            /\ UNCHANGED arena_aborted
       ELSE /\ arena_aborted' = TRUE
            /\ UNCHANGED <<arena, region, mapped>>
    /\ UNCHANGED <<init_ret, maps, arena_ret, views, guest, arena_writes>>
    /\ UNCHANGED <<mmioVars, memVars, mmuVars, excVars>>

\* The offsets from the region's first byte that a view covers; a view of
\* 2^64 + size bytes (size < 0) runs to the end of the address space and on
\* from its start.
OffsetsOf(v) ==
    IF v.size >= 0 THEN v.data.off..(v.data.off + v.size - 1)
    ELSE { o \in 0..(MaxCap + SIZEOF_GUEST_MEMORY_T) :
             o >= v.data.off \/ o < v.data.off + v.size }

\* The owner of a view stores the byte b at offset o of the region.
view_store(i, o, b) ==
    /\ ~arena_aborted
    /\ mapped
    /\ arena_writes < MaxArenaWrites
    /\ i \in 1..Len(views)
    /\ views[i].data.region = arena.data.region
    /\ o \in OffsetsOf(views[i]) \cap DOMAIN region
    /\ region' = [region EXCEPT ![o] = RawByte(b)]
    /\ arena_writes' = arena_writes + 1
    /\ arena_op' = [fn |-> "store", n |-> o]
    /\ UNCHANGED <<arena, init_ret, mapped, maps, arena_ret, views, guest,
                   arena_aborted>>
    /\ UNCHANGED <<mmioVars, memVars, mmuVars, excVars>>

\* The region after the two stores through `memory`: the 16 bytes at offset
\* `at` hold the object representation of the descriptor.
WithDescriptor(reg, at) ==
    [o \in DOMAIN reg |->
        IF at <= o /\ o < at + SIZEOF_GUEST_MEMORY_T
        THEN DescriptorByte(o - at) ELSE reg[o]]

\* guest_memory_create(&arena)
guest_memory_create ==
    /\ ~arena_aborted
    /\ Len(views) + 2 <= MaxViews
    /\ arena_op' = [fn |-> "guest_memory_create", n |-> 0]
    /\ IF arena.data # NULL_DATA /\ AllocateFits(arena, SIZEOF_GUEST_MEMORY_T)
       THEN LET first    == Allocated(arena, SIZEOF_GUEST_MEMORY_T)
                ram_size == U64Sub(first.arena.capacity, first.arena.size)
                second   == Allocated(first.arena, ram_size)
            IN  \* size + ram_size = capacity: the second assertion holds
                /\ arena' = second.arena
                /\ arena_ret' = first.data
                /\ views' = views \o << View(first.data, SIZEOF_GUEST_MEMORY_T),
                                       View(second.data, ram_size) >>
                /\ guest' = [at |-> first.data, base |-> second.data,
                             size |-> ram_size]
                /\ region' = WithDescriptor(region, first.data.off)
                /\ UNCHANGED arena_aborted
       ELSE /\ arena_aborted' = TRUE
            /\ UNCHANGED <<arena, arena_ret, views, guest, region>>
    /\ UNCHANGED <<init_ret, mapped, maps, arena_writes>>
    /\ UNCHANGED <<mmioVars, memVars, mmuVars, excVars>>

\* ---- inputs of the arena model

\* Capacities asked of arena_init: 0, 4, MaxCap, and 2^64 - 1.
CapacityInputs == {0, 4, MaxCap, 0 - 1}

\* Sizes asked of arena_allocate: 0, small ones, one above MaxCap, and
\* 2^64 - 1, 2^64 - 3.
AllocateInputs == {0, 1, 3, 4, MaxCap + 1, 0 - 1, 0 - 3}

\* Bytes a view's owner stores.
ViewBytes == {0, 85}

\* No arena_t yet: the other specifications leave the arena alone.
ArenaIdle ==
    /\ arena = [capacity |-> 0, size |-> 0, data |-> NULL_DATA]
    /\ init_ret = [capacity |-> 0, size |-> 0, data |-> NULL_DATA]
    /\ region = NoRegion
    /\ mapped = FALSE
    /\ maps = 0
    /\ arena_op = [fn |-> "none", n |-> 0]
    /\ arena_ret = NULL_DATA
    /\ views = <<>>
    /\ guest = NoGuest
    /\ arena_writes = 0
    /\ arena_aborted = FALSE

\* The state after  arena_t arena = arena_init(capacity);
ArenaInit ==
    \E capacity \in CapacityInputs, ok \in BOOLEAN :
        LET r == ArenaInitResult(capacity, ok, 1)
        IN  /\ arena = r.arena
            /\ init_ret = r.arena
            /\ region = r.region
            /\ mapped = r.mapped
            /\ maps = IF r.mapped THEN 1 ELSE 0
            /\ arena_op = [fn |-> "arena_init", n |-> capacity]
            /\ arena_ret = r.arena.data
            /\ views = <<>>
            /\ guest = NoGuest
            /\ arena_writes = 0
            /\ arena_aborted = FALSE

---------------------------------------------------------------------------
(* Specifications: one per subsystem, the others idle *)

MemIdle ==
    /\ host_le = TRUE
    /\ endian_swap = FALSE
    /\ mem_base = "ram_block"
    /\ mem_size = 0
    /\ ram = <<>>
    /\ mem_op = [op |-> "none"]
    /\ mem_ret = GUEST_MEM_ACCESS_OK
    /\ out_val = UNSET
    /\ touched = {}
    /\ writes = 0

\* No guest memory to walk and no translation made.
MmuWalkIdle ==
    /\ memory = [size |-> ZeroWord, qwords |-> NoCells]
    /\ build = [ndebug |-> FALSE, shift_count_wraps |-> TRUE, ctz_of_zero |-> 64]
    /\ MmuNoCall

MmuIdle ==
    /\ vcpu = VcpuReset
    /\ MmuWalkIdle

InitMmio == MmioInit /\ MemIdle /\ MmuIdle /\ ExcIdle /\ ArenaIdle

RegisterStep == \E range \in Ranges, handler \in Handlers : mmio_db_register(range, handler)

DispatchWriteStep ==
    \E gpa \in 0..MaxGpa, buf \in Buffers :
        mmio_db_dispatch_write(gpa, buf.data, buf.len)

DispatchReadStep ==
    \E gpa \in 0..MaxGpa, buf \in Buffers :
        mmio_db_dispatch_read(gpa, buf.data, buf.len)

NextMmio == RegisterStep \/ DispatchWriteStep \/ DispatchReadStep

SpecMmio == InitMmio /\ [][NextMmio]_vars

InitMem == MemInit /\ MmioInit /\ MmuIdle /\ ExcIdle /\ ArenaIdle

NextMem ==
    \/ guest_mem_readb
    \/ guest_mem_readw
    \/ guest_mem_readl
    \/ guest_mem_readq
    \/ guest_mem_writeb
    \/ guest_mem_writew
    \/ guest_mem_writel
    \/ guest_mem_writeq

SpecMem == InitMem /\ [][NextMem]_vars

InitMmu == MmuInit /\ MmioInit /\ MemIdle /\ ExcIdle /\ ArenaIdle

KvmTranslateStep == \E gva \in GvaInputs : mmu_gva_to_gpa(gva)

Arm64TranslateStep == \E gva \in GvaInputs : arm64_mmu_gva_to_gpa(gva)

NextMmu == KvmTranslateStep \/ Arm64TranslateStep

SpecMmu == InitMmu /\ [][NextMmu]_vars

InitExc == ExcInit /\ MmuWalkIdle /\ MmioInit /\ MemIdle /\ ArenaIdle

TakeExceptionStep ==
    \E exception_class \in ExceptionClasses, iss \in IssInputs,
       faulting_address \in FaultingAddresses :
        take_synchronous_exception(exception_class, iss, faulting_address)

NextExc == TakeExceptionStep

SpecExc == InitExc /\ [][NextExc]_vars

InitArena == ArenaInit /\ MmioInit /\ MemIdle /\ MmuIdle /\ ExcIdle

ArenaInitStep == \E capacity \in CapacityInputs, ok \in BOOLEAN : arena_init(capacity, ok)

ArenaAllocateStep == \E size \in AllocateInputs : arena_allocate(size)

ViewStoreStep ==
    \E i \in 1..MaxViews, o \in 0..(MaxCap - 1), b \in ViewBytes : view_store(i, o, b)

NextArena ==
    \/ ArenaInitStep
    \/ ArenaAllocateStep
    \/ arena_reset
    \/ arena_free
    \/ ViewStoreStep
    \/ guest_memory_create

SpecArena == InitArena /\ [][NextArena]_vars

---------------------------------------------------------------------------
(* Claims about the MMIO registry, checked under SpecMmio *)

\* gpa lies in the half-open interval [gpa_base, gpa_end) of r.
Contains(r, gpa) == r.gpa_base <= gpa /\ gpa < r.gpa_end

\* Two ranges share an address, as half-open intervals.
Intersects(a, b) == \E gpa \in 0..MaxGpa : Contains(a, gpa) /\ Contains(b, gpa)

\* The entries (1-based) whose range contains gpa.
Hits(gpa) == { k \in 1..Len(address_ranges) : Contains(address_ranges[k], gpa) }

\* The callback of entry k for the direction of the last dispatch.
DirCallback(k) == IF mmio_op.op = "read" THEN handlers[k].read ELSE handlers[k].write

\* The callback of entry k for the direction opposite to the last dispatch.
OppositeCallback(k) == IF mmio_op.op = "read" THEN handlers[k].write ELSE handlers[k].read

IsDispatch == mmio_op.op \in {"read", "write"}

\* C1: after any sequence of mmio_db_register calls on an initially empty
\* registry, the stored ranges are strictly increasing by gpa_base and
\* pairwise disjoint as half-open intervals.
C1_StrictlySortedDisjoint ==
    \A i, j \in 1..Len(address_ranges) :
        i < j => /\ address_ranges[i].gpa_base < address_ranges[j].gpa_base
                 /\ ~Intersects(address_ranges[i], address_ranges[j])

\* C2: mmio_db_register returns EADDRESS_OVERLAP exactly when the new range
\* intersects some registered range, and otherwise returns MMIO_SUCCESS and
\* inserts the range with its handler.
C2_OverlapIffIntersects ==
    [][ mmio_op'.op = "register" =>
          LET range == mmio_op'.range
              meets == \E k \in 1..Len(address_ranges) :
                           Intersects(range, address_ranges[k])
          IN  /\ (mmio_ret' = EADDRESS_OVERLAP) <=> meets
              /\ ~meets =>
                    /\ mmio_ret' = MMIO_SUCCESS
                    /\ \E i \in 0..Len(address_ranges) :
                          /\ address_ranges' = InsertAt(address_ranges, i, range)
                          /\ handlers' = InsertAt(handlers, i, mmio_op'.handler)
      ]_vars

\* C3: a dispatch on a gpa inside a registered range whose callback for the
\* requested direction is non-null invokes exactly that entry's callback,
\* once, with the same (gpa, data, len), and returns MMIO_SUCCESS; a dispatch
\* on a gpa in no registered range returns ENOT_HANDLED and invokes nothing.
C3_DispatchRoutes ==
    IsDispatch =>
        /\ \A k \in Hits(mmio_op.gpa) :
              DirCallback(k) # NULLPTR =>
                  /\ mmio_ret = MMIO_SUCCESS
                  /\ Len(invoked) = 1
                  /\ invoked[1].fn = DirCallback(k)
                  /\ invoked[1].gpa = mmio_op.gpa
                  /\ invoked[1].data = mmio_op.data
                  /\ invoked[1].len = mmio_op.len
        /\ Hits(mmio_op.gpa) = {} =>
              /\ mmio_ret = ENOT_HANDLED
              /\ invoked = <<>>

\* A read dispatched into the second of two registered ranges, at its first
\* address, has called that range's read callback.
C3_Witness ==
    /\ mmio_op.op = "read"
    /\ Len(address_ranges) = 2
    /\ Hits(mmio_op.gpa) = {2}
    /\ mmio_op.gpa = address_ranges[2].gpa_base
    /\ handlers[1].read # NULLPTR
    /\ handlers[2].read # handlers[1].read
    /\ Len(invoked) = 1
    /\ invoked[1].fn = handlers[2].read
    /\ mmio_ret = MMIO_SUCCESS

\* C4: a dispatch on a gpa inside a registered range whose callback for the
\* requested direction is null returns EACCESS_DENIED and invokes nothing,
\* also when the callback for the opposite direction is non-null.
C4_NullCallbackDenies ==
    IsDispatch =>
        \A k \in Hits(mmio_op.gpa) :
            DirCallback(k) = NULLPTR =>
                /\ mmio_ret = EACCESS_DENIED
                /\ invoked = <<>>

\* A dispatch into a range whose callback for that direction is null and
\* whose opposite callback is not has been denied.
C4_Witness ==
    /\ IsDispatch
    /\ \E k \in Hits(mmio_op.gpa) :
          /\ DirCallback(k) = NULLPTR
          /\ OppositeCallback(k) # NULLPTR
    /\ mmio_ret = EACCESS_DENIED
    /\ invoked = <<>>

\* C5: every entry of the registry has gpa_base < gpa_end and a handler with
\* at least one non-null callback.
C5_EntriesWellFormed ==
    \A k \in 1..Len(address_ranges) :
        /\ address_ranges[k].gpa_base < address_ranges[k].gpa_end
        /\ (handlers[k].read # NULLPTR \/ handlers[k].write # NULLPTR)

\* C30: a mmio_db_register call that returns EADDRESS_OVERLAP leaves the
\* ranges and the handlers as they were, in the same order; a dispatch
\* leaves them as they were too; so after either step every gpa is routed to
\* the entry it was routed to before.
C30_RejectionKeepsRegistry ==
    [][ (\/ mmio_op'.op = "register" /\ mmio_ret' = EADDRESS_OVERLAP
         \/ mmio_op'.op \in {"read", "write"})
          => /\ address_ranges' = address_ranges
             /\ handlers' = handlers
             /\ \A gpa \in 0..MaxGpa :
                   DispatchCandidate(address_ranges', gpa)
                       = DispatchCandidate(address_ranges, gpa) ]_vars

\* With one region registered, a registration of a different range with a
\* different handler has been rejected, and the registry holds the one
\* region.
C30_Witness ==
    /\ mmio_op.op = "register"
    /\ mmio_ret = EADDRESS_OVERLAP
    /\ Len(address_ranges) = 1 /\ Len(handlers) = 1
    /\ mmio_op.range # address_ranges[1]
    /\ mmio_op.handler # handlers[1]

---------------------------------------------------------------------------
(* Claims about the guest-memory accessors, checked under SpecMem *)

IsAccess(op) == op.op \in {"read", "write"}

\* The access range [gpa, gpa + N) lies within [0, size), in unbounded
\* arithmetic: a gpa near 2^64 (written negative) never does.
WithinRam(N, gpa) == gpa >= 0 /\ gpa + N <= mem_size

\* gpa mod N = 0.
Aligned(N, gpa) == gpa % N = 0

\* C6: for every width N, every N-aligned gpa in [0, size - N] and every
\* value v, write_N(gpa, v) returns OK and a following read_N(gpa) returns
\* OK with value v.
C6_RoundTrip ==
    [][ /\ ( /\ mem_op'.op = "write"
             /\ WithinRam(mem_op'.width, mem_op'.gpa)
             /\ Aligned(mem_op'.width, mem_op'.gpa) )
           => mem_ret' = GUEST_MEM_ACCESS_OK
        /\ ( /\ mem_op.op = "write"
             /\ WithinRam(mem_op.width, mem_op.gpa)
             /\ Aligned(mem_op.width, mem_op.gpa)
             /\ mem_op'.op = "read"
             /\ mem_op'.width = mem_op.width
             /\ mem_op'.gpa = mem_op.gpa )
           => /\ mem_ret' = GUEST_MEM_ACCESS_OK
              /\ out_val' = mem_op.val
      ]_vars

\* A 64-bit read at the last aligned address of RAM has returned the
\* eight-byte value a write stored there, on a build with the byte swaps.
C6_Witness ==
    /\ mem_op.op = "read"
    /\ mem_op.width = 8
    /\ mem_op.gpa = mem_size - 8
    /\ endian_swap
    /\ writes = 1
    /\ mem_ret = GUEST_MEM_ACCESS_OK
    /\ out_val = [i \in 1..8 |-> i]

\* C7: read_N and write_N return FAULT_BOUNDARY whenever [gpa, gpa + N) is
\* not entirely within [0, size), for every size and every 64-bit gpa, and
\* then touch no byte of host memory.
C7_OutOfRangeFaults ==
    (IsAccess(mem_op) /\ ~WithinRam(mem_op.width, mem_op.gpa)) =>
        /\ mem_ret = GUEST_MEM_ACCESS_FAULT_BOUNDARY
        /\ touched = {}

---------------------------------------------------------------------------
(* Claims about the MMU, checked under SpecMmu *)

IsTranslation == mmu_op.fn # "none"

\* C10: with bit 0 (M) of sctlr_el1 clear, a translation returns success
\* having stored the gva itself through out_gpa, whatever tcr_el1, ttbr0_el1,
\* ttbr1_el1, the guest memory and the gva are.
C10_IdentityWhenMmuOff ==
    (IsTranslation /\ 0 \notin vcpu.sctlr_el1)
        => /\ ~mmu_aborted
           /\ mmu_ret = 0
           /\ out_gpa = <<mmu_op.gva>>

\* The full translation has run with M clear and other SCTLR bits set, on a
\* gva above the 48-bit space, a reserved granule and a 4-byte RAM.
C10_Witness ==
    /\ mmu_op = [fn |-> "kvm::mmu_gva_to_gpa", gva |-> WordOf(1, 48)]
    /\ vcpu.sctlr_el1 = WordOf(1, 2) \cup WordOf(1, 12)
    /\ vcpu.tcr_el1 = MkTcr(16, 3, 16, 0)
    /\ memory.size = WordOf(4, 0)
    /\ mmu_ret = 0
    /\ out_gpa = <<WordOf(1, 48)>>

IsKvmTranslation == mmu_op.fn = "kvm::mmu_gva_to_gpa"

MmuOn == 0 \in vcpu.sctlr_el1

\* C11: with the MMU enabled, bit 63 of the gva selects the regime: a gva
\* with bit 63 set takes the TTBR1 branch (TTBR1_EL1, T1SZ, TG1), a gva with
\* bit 63 clear takes the TTBR0 branch (TTBR0_EL1, T0SZ, TG0).
C11_RegimeFollowsBit63 ==
    (IsKvmTranslation /\ MmuOn)
        => mmu_half = (IF 63 \in mmu_op.gva THEN "ttbr1" ELSE "ttbr0")

\* The value of the field of `width` bits (at most 8) at bit `lo` of a word.
Field(w, lo, width) == ToUint8(AndW(ShrW(w, lo), LowMask(width)))

\* The bits of a word at positions >= n.
BitsFrom(w, n) == { b \in w : b >= n }

\* A gva outside its half's VA_size = 64 - TxSZ: in the TTBR0 half (bit 63
\* clear) a 1 bit at a position >= VA_size, in the TTBR1 half bits at
\* positions >= VA_size that differ from those of TTBR1_EL1.
NonCanonical(cpu, gva) ==
    IF 63 \in gva
    THEN BitsFrom(gva, 64 - Field(cpu.tcr_el1, 16, 6))
             # BitsFrom(cpu.ttbr1_el1, 64 - Field(cpu.tcr_el1, 16, 6))
    ELSE BitsFrom(gva, 64 - Field(cpu.tcr_el1, 0, 6)) # {}

\* The call returned the translation fault, -1.
TranslationFault == ~mmu_aborted /\ mmu_ret = -1 /\ out_gpa = <<>>

\* C12: with the MMU enabled, a non-canonical gva yields a translation fault
\* before any descriptor is read.
C12_NonCanonicalFaults ==
    (IsKvmTranslation /\ MmuOn /\ NonCanonical(vcpu, mmu_op.gva))
        => (TranslationFault /\ desc_reads = <<>>)

\* The TG field of the half that bit 63 of the gva names, and the
\* page-offset width it encodes (0 for a reserved value).
SelectedTG(cpu, gva) ==
    IF 63 \in gva THEN Field(cpu.tcr_el1, 30, 2) ELSE Field(cpu.tcr_el1, 14, 2)

GranuleBits(cpu, gva) ==
    IF 63 \in gva
    THEN CASE SelectedTG(cpu, gva) = 1 -> 14
           [] SelectedTG(cpu, gva) = 2 -> 12
           [] SelectedTG(cpu, gva) = 3 -> 16
           [] OTHER -> 0
    ELSE CASE SelectedTG(cpu, gva) = 0 -> 12
           [] SelectedTG(cpu, gva) = 1 -> 16
           [] SelectedTG(cpu, gva) = 2 -> 14
           [] OTHER -> 0

\* The last descriptor the call read.
LastDescriptor == desc_reads[Len(desc_reads)].descriptor

\* C13: with the MMU enabled and a canonical gva, a reserved value of the
\* selected TG field makes the call return a translation fault, and a
\* successful call has used the granule the field encodes: the low
\* GranuleBits bits of the gpa are the gva's, the others the descriptor's.
C13_GranuleDecode ==
    (IsKvmTranslation /\ MmuOn /\ ~NonCanonical(vcpu, mmu_op.gva))
        => /\ GranuleBits(vcpu, mmu_op.gva) = 0 => TranslationFault
           /\ (GranuleBits(vcpu, mmu_op.gva) # 0 /\ ~mmu_aborted /\ mmu_ret = 0)
                 => out_gpa = << (LastDescriptor \ LowMask(GranuleBits(vcpu, mmu_op.gva)))
                                 \cup (mmu_op.gva \cap LowMask(GranuleBits(vcpu, mmu_op.gva))) >>

\* The 8-byte cell of guest RAM at gpa, when gpa is 8-byte aligned and the
\* cell lies inside RAM; outside of that RAM holds no descriptor (0 here).
HeldAt(mem, gpa) ==
    IF \/ gpa \cap LowMask(3) # {}
       \/ UGtW(WordOf(8, 0), mem.size)
       \/ UGtW(gpa, SubW(mem.size, WordOf(8, 0)))
    THEN ZeroWord
    ELSE IF gpa \in DOMAIN mem.qwords THEN mem.qwords[gpa] ELSE PoisonWord

\* The shift of a level: L3's is the page-offset width ob, each level above
\* adds the index width ob - 3.
LevelShift(ob, level) == ob + (3 - level) * (ob - 3)

\* table_base + idx * 8 with idx = (gva >> level_shift) masked to ob - 3 bits
DescAddr(gva, ob, level, table_base) ==
    AddW(table_base, ShlW(ShrW(gva, LevelShift(ob, level)) \cap LowMask(ob - 3), 3))

\* The descriptors a walk from `level` at table_base meets while they are
\* table descriptors, up to and including the one at level 3.
RECURSIVE WalkPath(_, _, _, _, _)
WalkPath(mem, gva, ob, level, table_base) ==
    LET gpa == DescAddr(gva, ob, level, table_base)
        d   == HeldAt(mem, gpa)
        here == <<[level |-> level, gpa |-> gpa, descriptor |-> d]>>
    IN  IF level = 3 \/ {0, 1} \cap d # {0, 1} THEN here
        ELSE here \o WalkPath(mem, gva, ob, level + 1, d \ LowMask(ob))

\* The root table of the half that bit 63 of the gva names.
SelectedRoot(cpu, gva) == IF 63 \in gva THEN cpu.ttbr1_el1 ELSE cpu.ttbr0_el1

\* VA_size = 64 - TxSZ of the half that bit 63 of the gva names.
SelectedVaSize(cpu, gva) ==
    64 - (IF 63 \in gva THEN Field(cpu.tcr_el1, 16, 6) ELSE Field(cpu.tcr_el1, 0, 6))

\* The path of the last call's gva through the tables of its half, from the
\* starting level of its VA size and granule.
PathFromStart ==
    LET ob == GranuleBits(vcpu, mmu_op.gva)
    IN  WalkPath(memory, mmu_op.gva, ob,
                 StartingLevel(WordOf(1, ob), SelectedVaSize(vcpu, mmu_op.gva),
                               LevelShift(ob, 0), LevelShift(ob, 1)),
                 SelectedRoot(vcpu, mmu_op.gva))

\* Every level of the path down to level 3 holds a descriptor with low bits 11.
PathMapsPage(path) ==
    /\ path[Len(path)].level = 3
    /\ \A i \in 1..Len(path) : {0, 1} \subseteq path[i].descriptor

\* The call had a walk to make: MMU on, canonical gva, a granule.
Walkable ==
    /\ IsKvmTranslation /\ MmuOn
    /\ ~NonCanonical(vcpu, mmu_op.gva)
    /\ GranuleBits(vcpu, mmu_op.gva) # 0

\* C14: when the tables hold table descriptors from the starting level to
\* level 2 and a page descriptor at level 3, the call returns success, it has
\* read each level's descriptor at table_base + idx * 8, and the gpa is the
\* level-3 descriptor with its page-offset bits replaced by the gva's.
C14_WalkPreservesOffset ==
    (Walkable /\ PathMapsPage(PathFromStart))
        => /\ ~mmu_aborted
           /\ mmu_ret = 0
           /\ [i \in 1..Len(desc_reads) |->
                   [level |-> desc_reads[i].level, gpa |-> desc_reads[i].gpa,
                    descriptor |-> desc_reads[i].descriptor]] = PathFromStart
           /\ out_gpa =
                 << (PathFromStart[Len(PathFromStart)].descriptor
                        \ LowMask(GranuleBits(vcpu, mmu_op.gva)))
                    \cup (mmu_op.gva \cap LowMask(GranuleBits(vcpu, mmu_op.gva))) >>

\* The 8 bytes at gpa lie inside guest RAM, and gpa is 8-byte aligned: the
\* descriptor reads that succeed.
ReadSucceeds(mem, gpa) ==
    /\ gpa \cap LowMask(3) = {}
    /\ ~UGtW(WordOf(8, 0), mem.size)
    /\ ~UGtW(gpa, SubW(mem.size, WordOf(8, 0)))

\* Read i of the last call succeeded and returned low bits 11.
GoodRead(i) ==
    /\ ReadSucceeds(memory, desc_reads[i].gpa)
    /\ {0, 1} \subseteq desc_reads[i].descriptor

\* Read i failed, or returned a descriptor with bit 0 clear (00 or 10).
FaultingRead(i) ==
    \/ ~ReadSucceeds(memory, desc_reads[i].gpa)
    \/ 0 \notin desc_reads[i].descriptor

\* The call's last read was at level 3 and did not return a page descriptor.
EndedWithoutPage ==
    /\ desc_reads # <<>>
    /\ desc_reads[Len(desc_reads)].level = 3
    /\ ~({0, 1} \subseteq LastDescriptor)

Succeeded == ~mmu_aborted /\ mmu_ret = 0

\* C15: with the MMU enabled, a call succeeds only if every descriptor read
\* of its walk succeeded and returned low bits 11; a failed read or a
\* descriptor with low bits 00 or 10 at any level, and a walk that ends
\* without a page descriptor at level 3, give a translation fault.
C15_SuccessNeedsGoodReads ==
    (IsKvmTranslation /\ MmuOn)
        => /\ Succeeded => \A i \in 1..Len(desc_reads) : GoodRead(i)
           /\ (\E i \in 1..Len(desc_reads) : FaultingRead(i)) => TranslationFault
           /\ EndedWithoutPage => TranslationFault

\* Read i of the last call returned a block descriptor (low bits 01) at a
\* level above 3.
BlockRead(i) ==
    /\ desc_reads[i].level < 3
    /\ 0 \in desc_reads[i].descriptor
    /\ 1 \notin desc_reads[i].descriptor

\* C16: a walk that meets a block descriptor at a non-final level returns to
\* its caller a fault that is neither success (0) nor the translation fault
\* (-1), and reads no descriptor after the block descriptor.
C16_BlockIsUnsupported ==
    (IsKvmTranslation /\ MmuOn)
        => \A i \in 1..Len(desc_reads) :
              BlockRead(i) => /\ ~mmu_aborted
                              /\ mmu_ret \notin {0, -1}
                              /\ i = Len(desc_reads)

\* VA_size = 64 - TxSZ and the page-offset width of the half the call
\* selected (0 for a reserved TG value).
UsedVaSize ==
    64 - (IF mmu_half = "ttbr1" THEN Field(vcpu.tcr_el1, 16, 6)
          ELSE Field(vcpu.tcr_el1, 0, 6))

UsedGranuleBits ==
    IF mmu_half = "ttbr1"
    THEN CASE Field(vcpu.tcr_el1, 30, 2) = 1 -> 14
           [] Field(vcpu.tcr_el1, 30, 2) = 2 -> 12
           [] Field(vcpu.tcr_el1, 30, 2) = 3 -> 16
           [] OTHER -> 0
    ELSE CASE Field(vcpu.tcr_el1, 14, 2) = 0 -> 12
           [] Field(vcpu.tcr_el1, 14, 2) = 1 -> 16
           [] Field(vcpu.tcr_el1, 14, 2) = 2 -> 14
           [] OTHER -> 0

\* The lowest level L of the granule's range (0..3 for 4KiB, 1..3 for 16KiB
\* and 64KiB) with VA_size > L<L>_shift.
LowestLevelFor(ob, va_size) ==
    LET range == IF ob = 12 THEN 0..3 ELSE 1..3
        fit   == { L \in range : va_size > LevelShift(ob, L) }
    IN  IF fit = {} THEN 3 ELSE CHOOSE L \in fit : \A M \in fit : L <= M

\* C26: with the MMU enabled, a walk starts at the lowest level L whose
\* shift is below the VA size: the first descriptor read is the one of
\* level LowestLevelFor(page-offset width, VA_size), L in 0..3 for the 4KiB
\* granule and in 1..3 for the 16KiB and 64KiB granules.
C26_StartsAtLowestLevel ==
    (IsKvmTranslation /\ MmuOn /\ UsedGranuleBits # 0 /\ desc_reads # <<>>)
        => desc_reads[1].level = LowestLevelFor(UsedGranuleBits, UsedVaSize)

\* C27: a call reads at most 4 descriptors, each of a level in 0..3, one
\* per level in strictly increasing order, and a read is followed by
\* another only when its descriptor did not end the walk, that is when it
\* is a table descriptor (low bits 11) above level 3.
C27_WalkIsBounded ==
    IsKvmTranslation
        => /\ Len(desc_reads) <= 4
           /\ \A i \in 1..Len(desc_reads) : desc_reads[i].level \in 0..3
           /\ \A i \in 1..(Len(desc_reads) - 1) :
                 /\ desc_reads[i + 1].level = desc_reads[i].level + 1
                 /\ {0, 1} \subseteq desc_reads[i].descriptor

---------------------------------------------------------------------------
(* Claims about exception entry, checked under SpecExc.  They relate the   *)
(* vCPU before a call (unprimed) to the vCPU after it (primed); a call     *)
(* that a PVM_ASSERT stops does not return and has no state after it.      *)

\* The step is a call with exception_class in [0, 64) and iss in [0, 2^25).
ExcCallInRange ==
    /\ exc_op'.fn = "take_synchronous_exception"
    /\ exc_op'.ec \in 0..63
    /\ exc_op'.iss \subseteq 0..24

\* The step is a call that returned.
ExcCallReturned ==
    /\ exc_op'.fn = "take_synchronous_exception"
    /\ ~exc_aborted'

\* C17: a call with ec in [0, 64) and iss in [0, 2^25) returns with elr_el1
\* the pre-call pc, spsr_el1 the pre-call pstate zero-extended, and esr_el1
\* = (ec << 26) | (1 << 25) | iss, no bit above bit 31 set.
C17_RecordsReturnState ==
    [][ ExcCallInRange
          => /\ ~exc_aborted'
             /\ vcpu'.elr_el1 = vcpu.pc
             /\ vcpu'.spsr_el1 = vcpu.pstate
             /\ vcpu'.esr_el1 = WordOf(exc_op'.ec, 26) \cup {25} \cup exc_op'.iss
             /\ vcpu'.esr_el1 \subseteq 0..31 ]_vars

\* A data abort with iss = 2^25 - 1 taken at pc 2^42 + 4 with pstate
\* 0xFFFFFFFF.
C17_Witness ==
    /\ exc_op.fn = "take_synchronous_exception" /\ ~exc_aborted
    /\ exc_op.ec = 37 /\ exc_op.iss = 0..24
    /\ vcpu.esr_el1 = {31, 28, 26} \cup (0..25)
    /\ vcpu.elr_el1 = {42, 2} /\ vcpu.pc = {42, 2}
    /\ vcpu.spsr_el1 = 0..31

C19_EntryPstate ==
    [][ ExcCallReturned
          => /\ vcpu'.pstate \cap (28..31) = {}
             /\ {6, 7, 8} \subseteq vcpu'.pstate
             /\ vcpu'.pstate \cap (0..3) = {0, 2}
             /\ vcpu'.pstate \cap ((9..27) \cup {4, 5})
                    = vcpu.pstate \cap ((9..27) \cup {4, 5})
             /\ vcpu'.pstate \subseteq 0..31 ]_vars

\* An exception taken with pstate 0xFFFFFFFF, and one taken with N, C and
\* bit 9 set at EL0.
C19_Witness ==
    /\ exc_op.fn = "take_synchronous_exception" /\ ~exc_aborted
    /\ \/ vcpu.spsr_el1 = 0..31 /\ vcpu.pstate = (4..27) \cup {0, 2}
       \/ vcpu.spsr_el1 = {31, 29, 9} /\ vcpu.pstate = {9, 8, 7, 6, 2, 0}

C28_RangesEnforcedFirst ==
    [][ exc_op'.fn = "take_synchronous_exception"
          => IF exc_op'.ec \in 0..63 /\ exc_op'.iss \subseteq 0..24
             THEN ~exc_aborted'
             ELSE exc_aborted' /\ vcpu' = vcpu ]_vars

\* A call with exception_class 128 (bit 7 alone), or one with iss = 2^25,
\* has been stopped after an earlier call returned, and the vCPU is as that
\* earlier call left it.
C28_Witness ==
    /\ exc_aborted
    /\ \/ exc_op.ec = 128 /\ exc_op.iss = ZeroWord
       \/ exc_op.ec = 21 /\ exc_op.iss = {25}
    /\ vcpu.elr_el1 = vcpu.pc
    /\ 25 \in vcpu.esr_el1 /\ vcpu.esr_el1 \subseteq 0..31

---------------------------------------------------------------------------
(* Claims about the host arena, checked under SpecArena.  A call that a    *)
(* PVM_ASSERT stops does not return; the arena is then as the call found   *)
(* it.                                                                     *)

\* Every byte of the arena's region is the poison byte, and the region is
\* capacity bytes long.
AllPoison ==
    /\ DOMAIN region = 0..(arena.capacity - 1)
    /\ \A o \in DOMAIN region : region[o] = RawByte(POISON_PATTERN)

\* The step is a call of fn that returned.
ArenaCallReturned(fn) == arena_op'.fn = fn /\ ~arena_aborted'

\* C21: from a successful arena_init(C) on, as long as arena_free has not
\* been called, 0 <= size <= capacity, capacity = C, and data is the pointer
\* arena_init returned.
C21_ArenaInvariant ==
    mapped
        => /\ ULe(0, arena.size) /\ ULe(arena.size, arena.capacity)
           /\ arena.capacity = init_ret.capacity
           /\ arena.data = init_ret.data
           /\ arena.data # NULL_DATA

\* A second allocation has filled a 4-byte arena exactly.
C21_Witness ==
    /\ mapped
    /\ arena_op.fn = "arena_allocate" /\ ~arena_aborted
    /\ Len(views) = 2
    /\ arena.capacity = 4 /\ arena.size = 4

\* C22: after a successful arena_init(C), size = 0, capacity = C and each of
\* the C bytes is 0xAA; and a returning arena_reset leaves size = 0, the
\* capacity it found, and every byte of the region 0xAA.
C22_InitAndResetPoison ==
    /\ []((arena_op.fn = "arena_init" /\ arena.data # NULL_DATA)
             => /\ arena.size = 0
                /\ arena.capacity = arena_op.n
                /\ AllPoison)
    /\ [][ ArenaCallReturned("arena_reset")
             => /\ arena'.size = 0
                /\ arena'.capacity = arena.capacity
                /\ DOMAIN region' = 0..(arena'.capacity - 1)
                /\ \A o \in DOMAIN region' : region'[o] = RawByte(POISON_PATTERN) ]_vars

\* A reset of a MaxCap-byte arena after a store into one of its views.
C22_Witness ==
    /\ arena_op.fn = "arena_reset" /\ ~arena_aborted
    /\ mapped /\ arena_writes = 1
    /\ arena.capacity = MaxCap /\ arena.size = 0
    /\ AllPoison

\* Two views share a byte.
ViewsOverlap(v, w) == OffsetsOf(v) \cap OffsetsOf(w) # {}

\* C23: an arena_allocate(n) that returns has returned data + old size, has
\* increased size by exactly n and has written no byte of the region; so
\* consecutive allocations are adjacent, and no two of the views returned
\* since the last reset overlap.
C23_AllocateBumps ==
    [][ ArenaCallReturned("arena_allocate")
          => /\ arena_ret' = PtrAdd(arena.data, arena.size)
             /\ arena_op'.n >= 0
             /\ arena'.size = arena.size + arena_op'.n
             /\ region' = region
             /\ \A i, j \in 1..Len(views') :
                   i < j => ~ViewsOverlap(views'[i], views'[j]) ]_vars

\* C24: arena_allocate(n) is stopped by the assertion, with the arena
\* unchanged and no view returned, whenever size + n > capacity in unbounded
\* arithmetic (always so for n near 2^64), and returns otherwise, an exact
\* fit included.
C24_OverCapacityRejected ==
    [][ arena_op'.fn = "arena_allocate"
          => IF arena_op'.n < 0 \/ arena.size + arena_op'.n > arena.capacity
             THEN arena_aborted' /\ arena' = arena /\ views' = views
             ELSE ~arena_aborted' ]_vars

\* arena_free has released the region and no arena_init has followed.
Released == arena.data # NULL_DATA /\ ~mapped

\* C25: after arena_free, every arena_allocate (n = 0 included), arena_reset
\* and arena_free on the arena is stopped by an assertion.
C25_UseAfterFreeIsFatal ==
    [][ (Released /\ arena_op'.fn \in {"arena_allocate", "arena_reset", "arena_free"})
          => arena_aborted' ]_vars

\* C29: guest_memory_create on an arena with at least sizeof(guest_memory_t)
\* bytes left returns with size = capacity, the descriptor at the old size,
\* memory.base right after the descriptor, memory.size the capacity that was
\* left after the descriptor, and the two not overlapping; and from then on
\* an arena_allocate of n # 0 bytes is stopped by the assertion.
C29_GuestMemoryTakesTheRest ==
    [][ /\ (/\ arena_op'.fn = "guest_memory_create"
            /\ mapped
            /\ ULe(SIZEOF_GUEST_MEMORY_T, arena.capacity - arena.size))
           => /\ ~arena_aborted'
              /\ arena'.capacity = arena.capacity
              /\ arena'.size = arena'.capacity
              /\ guest'.at = PtrAdd(arena.data, arena.size)
              /\ guest'.base = PtrAdd(arena.data, arena.size + SIZEOF_GUEST_MEMORY_T)
              /\ guest'.size = arena.capacity - (arena.size + SIZEOF_GUEST_MEMORY_T)
              /\ ~ViewsOverlap(View(guest'.at, SIZEOF_GUEST_MEMORY_T),
                               View(guest'.base, guest'.size))
        /\ (/\ guest # NoGuest
            /\ arena_op'.fn = "arena_allocate"
            /\ arena_op'.n # 0)
           => arena_aborted' ]_vars

=============================================================================
